---- MODULE Spec2Model ----
(***************************************************************************)
(* Model of the traffic monitor of src/main.go: the persisted statistics   *)
(* (TrafficStats), the monthly reset schedule (getNextResetTime), the      *)
(* accounting update (App.updateTrafficStats), the start-up load           *)
(* (App.loadOrInitStats), the warning and the monthly report, and the      *)
(* life cycle of the process (App.Start, App.monitorTraffic).              *)
(*                                                                         *)
(* uint64 is scaled down to the range 0..MaxUint: every unsigned operation *)
(* of the code is taken modulo Modulus, as the code takes it modulo 2^64.  *)
(* One GB of the configuration is GiB bytes.                               *)
(***************************************************************************)
EXTENDS Integers, FiniteSets, Sequences, TLC

VARIABLES
    cfg,      \* App.Config, as loaded by NewApp
    Stats,    \* App.Stats, the in-memory statistics
    disk,     \* the file traffic_stats.json
    bg,       \* the goroutine monitorTraffic
    fg,       \* the goroutine of Start
    wfails,   \* how many writes of the file may still fail
    ev,       \* what the latest operation on the statistics did
    hist,     \* history of the run: first baseline, deltas, warnings
    mu        \* App.mu: who holds the lock

vars == <<cfg, Stats, disk, bg, fg, wfails, ev, hist, mu>>

----------------------------------------------------------------------------
(* Bounds of the model *)

MaxUint == 2
MaxThresholdGB == 1
MaxWriteFails == 1

(* 1024 * 1024 * 1024 of the code, scaled with MaxUint *)
GiB == 2

Modulus == MaxUint + 1
Uint == 0 .. MaxUint

----------------------------------------------------------------------------
(* Unsigned arithmetic of the code: wraps modulo Modulus *)

USub(a, b) == (a - b + Modulus) % Modulus
UAdd(a, b) == (a + b) % Modulus

----------------------------------------------------------------------------
(* Time: a calendar date and whether the instant is midnight (h = 0) or    *)
(* later that day (h = 1).                                                 *)

Time(y, m, d, h) == [y |-> y, m |-> m, d |-> d, h |-> h]

TimeOrd(t) == ((t.y * 12 + t.m) * 32 + t.d) * 2 + t.h

\* time.Time.After
After(t, u) == TimeOrd(t) > TimeOrd(u)

\* the zero value of time.Time
ZeroTime == Time(1, 1, 1, 0)

\* time.Time.Format("2006-01")
FormatMonth(t) == <<t.y, t.m>>

YearMonths == {<<2024, 12>>, <<2025, 1>>, <<2025, 2>>}
DaysSampled == {1}

\* the instants the clock is read at
TimePoints ==
    {Time(ym[1], ym[2], d, h) : ym \in YearMonths, d \in DaysSampled, h \in {0, 1}}

\* a reading of the wall clock that is not before t
NotBefore(t) == {u \in TimePoints : TimeOrd(u) >= TimeOrd(t)}

----------------------------------------------------------------------------
(* getNextResetTime *)

getNextResetTimeNoRollover(t, resetDay) ==
    LET rd == IF resetDay < 1 THEN 1 ELSE IF resetDay > 28 THEN 28 ELSE resetDay
    IN  Time(t.y, IF t.m + 1 > 12 THEN 1 ELSE t.m + 1, rd, 0)

getNextResetTime(t, resetDay) ==
    LET rd == IF resetDay < 1 THEN 1 ELSE IF resetDay > 28 THEN 28 ELSE resetDay
        nextMonth == t.m + 1
    IN  IF nextMonth > 12
        THEN Time(t.y + 1, 1, rd, 0)
        ELSE Time(t.y, nextMonth, rd, 0)

----------------------------------------------------------------------------
(* Configuration *)

Modes == {"in", "out", "max", "both"}
\* a traffic_mode the switch statements do not name
OtherMode == "sum"

\* network interfaces: one that sends and receives, one that only receives
\* (its BytesSent stays 0)
Duplex == "eth0"
ReceiveOnly == "rx0"

Config(mode, gb, day, iface, bot, shutdown) ==
    [TrafficMode |-> mode, WarningThresholdGB |-> gb, MonthlyResetDay |-> day,
     NetworkInterface |-> iface, Bot |-> bot, ShutdownOnWarning |-> shutdown]

\* getCurrentTrafficBytes: the pairs BytesRecv, BytesSent a successful read
\* of the interface can return
getCurrentTrafficBytes(c) ==
    {<<bytesIn, bytesOut>> :
        bytesIn \in Uint,
        bytesOut \in IF c.NetworkInterface = ReceiveOnly THEN {0} ELSE Uint}

----------------------------------------------------------------------------
(* TrafficStats *)

ZeroStats ==
    [CurrentMonth |-> FormatMonth(ZeroTime), LastResetTime |-> ZeroTime,
     NextResetTime |-> ZeroTime, BytesIn |-> 0, BytesOut |-> 0,
     LastBytesIn |-> 0, LastBytesOut |-> 0, WarningsSentThisMonth |-> FALSE]

\* the file: absent, unreadable as JSON, or the statistics it holds
NoFile == [kind |-> "nofile", stats |-> ZeroStats]
Corrupt == [kind |-> "corrupt", stats |-> ZeroStats]
File(S) == [kind |-> "file", stats |-> S]

\* first run: loadOrInitStats when the file does not exist
InitStats(t, c, bytesIn, bytesOut) ==
    [CurrentMonth |-> FormatMonth(t), LastResetTime |-> t,
     NextResetTime |-> getNextResetTime(t, c.MonthlyResetDay),
     BytesIn |-> 0, BytesOut |-> 0,
     LastBytesIn |-> bytesIn, LastBytesOut |-> bytesOut,
     WarningsSentThisMonth |-> FALSE]

\* the delta of one counter since the baseline
DeltaIgnoringBaseline(current, last) == current

Delta(current, last) == USub(current, last)

\* updateTrafficStats: the accumulation
AccumulateKeepingBaseline(S, currentBytesIn, currentBytesOut) ==
    [S EXCEPT !.BytesIn = UAdd(S.BytesIn, Delta(currentBytesIn, S.LastBytesIn)),
              !.BytesOut = UAdd(S.BytesOut, Delta(currentBytesOut, S.LastBytesOut))]

Accumulate(S, currentBytesIn, currentBytesOut) ==
    [S EXCEPT !.BytesIn = UAdd(S.BytesIn, Delta(currentBytesIn, S.LastBytesIn)),
              !.BytesOut = UAdd(S.BytesOut, Delta(currentBytesOut, S.LastBytesOut)),
              !.LastBytesIn = currentBytesIn,
              !.LastBytesOut = currentBytesOut]

\* the switch on TrafficMode of updateTrafficStats and sendMonthlyReport
totalTraffic(S, c) ==
    CASE c.TrafficMode = "in" -> S.BytesIn
      [] c.TrafficMode = "out" -> S.BytesOut
      [] c.TrafficMode = "max" ->
            IF S.BytesIn > S.BytesOut THEN S.BytesIn ELSE S.BytesOut
      [] c.TrafficMode = "both" -> UAdd(S.BytesIn, S.BytesOut)
      [] OTHER -> 0

warningThresholdBytes(c) == c.WarningThresholdGB * GiB

\* whether updateTrafficStats calls sendWarningMessage
WarnDueIgnoringFlag(S, c) == totalTraffic(S, c) >= warningThresholdBytes(c)

WarnDue(S, c) ==
    /\ ~S.WarningsSentThisMonth
    /\ totalTraffic(S, c) >= warningThresholdBytes(c)

\* sendWarningMessage: the passes over the chat ids and the power-off goroutine
sendWarningMessage(c) ==
    IF ~c.Bot THEN [passes |-> 0, shutdown |-> FALSE]
    ELSE IF c.ShutdownOnWarning THEN [passes |-> 2, shutdown |-> TRUE]
    ELSE [passes |-> 1, shutdown |-> FALSE]

NoReport ==
    [sent |-> FALSE, month |-> FormatMonth(ZeroTime), in |-> 0, out |-> 0,
     total |-> 0, next |-> ZeroTime]

\* sendMonthlyReport: the message sent, if any
sendMonthlyReport(S, c) ==
    IF ~c.Bot THEN NoReport
    ELSE [sent |-> TRUE, month |-> S.CurrentMonth, in |-> S.BytesIn, out |-> S.BytesOut,
          total |-> totalTraffic(S, c), next |-> S.NextResetTime]

ResetDue(t, S) == After(t, S.NextResetTime)

\* updateTrafficStats: the reset
ResetStatsKeepingFlag(S, t, c) ==
    [S EXCEPT !.CurrentMonth = FormatMonth(t),
              !.LastResetTime = t,
              !.NextResetTime = getNextResetTime(t, c.MonthlyResetDay),
              !.BytesIn = 0,
              !.BytesOut = 0]

ResetStatsKeepingSchedule(S, t, c) ==
    [S EXCEPT !.CurrentMonth = FormatMonth(t),
              !.LastResetTime = t,
              !.BytesIn = 0,
              !.BytesOut = 0,
              !.WarningsSentThisMonth = FALSE]

ResetStats(S, t, c) ==
    [S EXCEPT !.CurrentMonth = FormatMonth(t),
              !.LastResetTime = t,
              !.NextResetTime = getNextResetTime(t, c.MonthlyResetDay),
              !.BytesIn = 0,
              !.BytesOut = 0,
              !.WarningsSentThisMonth = FALSE]

\* loadOrInitStats: the reset, with a fresh baseline
LoadResetStatsKeepingBaseline(S, t, c, bytesIn, bytesOut) ==
    [S EXCEPT !.CurrentMonth = FormatMonth(t),
              !.LastResetTime = t,
              !.NextResetTime = getNextResetTime(t, c.MonthlyResetDay),
              !.BytesIn = 0,
              !.BytesOut = 0,
              !.WarningsSentThisMonth = FALSE]

LoadResetStats(S, t, c, bytesIn, bytesOut) ==
    [S EXCEPT !.CurrentMonth = FormatMonth(t),
              !.LastResetTime = t,
              !.NextResetTime = getNextResetTime(t, c.MonthlyResetDay),
              !.BytesIn = 0,
              !.BytesOut = 0,
              !.LastBytesIn = bytesIn,
              !.LastBytesOut = bytesOut,
              !.WarningsSentThisMonth = FALSE]

----------------------------------------------------------------------------
(* What one call of updateTrafficStats does once the counters are read:    *)
(* accumulate, warn, reset. tot is the accumulators before the reset.      *)

NoMessage == [passes |-> 0, shutdown |-> FALSE]

\* the reset check, on the statistics W the warning check left
UpdateResetReportingAfter(W, c, t, warn, msg) ==
    IF ResetDue(t, W)
    THEN [Stats |-> ResetStats(W, t, c),
          warned |-> warn, passes |-> msg.passes, shutdown |-> msg.shutdown,
          reset |-> TRUE, report |-> sendMonthlyReport(ResetStats(W, t, c), c),
          totIn |-> W.BytesIn, totOut |-> W.BytesOut]
    ELSE [Stats |-> W,
          warned |-> warn, passes |-> msg.passes, shutdown |-> msg.shutdown,
          reset |-> FALSE, report |-> NoReport,
          totIn |-> W.BytesIn, totOut |-> W.BytesOut]

UpdateReset(W, c, t, warn, msg) ==
    IF ResetDue(t, W)
    THEN [Stats |-> ResetStats(W, t, c),
          warned |-> warn, passes |-> msg.passes, shutdown |-> msg.shutdown,
          reset |-> TRUE, report |-> sendMonthlyReport(W, c),
          totIn |-> W.BytesIn, totOut |-> W.BytesOut]
    ELSE [Stats |-> W,
          warned |-> warn, passes |-> msg.passes, shutdown |-> msg.shutdown,
          reset |-> FALSE, report |-> NoReport,
          totIn |-> W.BytesIn, totOut |-> W.BytesOut]

\* the warning check, on the statistics A the accumulation left
UpdateWarn(A, c, t) ==
    IF WarnDue(A, c)
    THEN UpdateReset([A EXCEPT !.WarningsSentThisMonth = TRUE], c, t, TRUE,
                     sendWarningMessage(c))
    ELSE UpdateReset(A, c, t, FALSE, NoMessage)

Update(S, c, currentBytesIn, currentBytesOut, t) ==
    UpdateWarn(Accumulate(S, currentBytesIn, currentBytesOut), c, t)

----------------------------------------------------------------------------
(* The record of the latest operation, and the history of the run *)

NoEv ==
    [op |-> "none", err |-> FALSE, read |-> "none", warned |-> FALSE,
     passes |-> 0, shutdown |-> FALSE, reset |-> FALSE, report |-> NoReport,
     totIn |-> 0, totOut |-> 0, write |-> "none", closed |-> 0,
     at |-> ZeroTime, rawIn |-> 0, rawOut |-> 0]

NoHist ==
    [mono |-> FALSE, initIn |-> 0, initOut |-> 0, sumIn |-> 0, sumOut |-> 0,
     flagUps |-> 0, warnPasses |-> 0]

\* the history after an update that read currentBytesIn, currentBytesOut
HistAfter(h, S, u, c, currentBytesIn, currentBytesOut) ==
    LET mono == /\ h.mono
                /\ ~u.reset
                /\ currentBytesIn >= S.LastBytesIn
                /\ currentBytesOut >= S.LastBytesOut
        ups == h.flagUps + (IF u.warned THEN 1 ELSE 0)
        passes == h.warnPasses + (IF u.passes > 0 THEN 1 ELSE 0)
    IN  [mono |-> mono,
         initIn |-> IF mono THEN h.initIn ELSE 0,
         initOut |-> IF mono THEN h.initOut ELSE 0,
         sumIn |-> IF mono THEN h.sumIn + Delta(currentBytesIn, S.LastBytesIn) ELSE 0,
         sumOut |-> IF mono THEN h.sumOut + Delta(currentBytesOut, S.LastBytesOut) ELSE 0,
         flagUps |-> IF u.reset THEN 0 ELSE ups,
         warnPasses |-> IF u.reset THEN 0 ELSE passes]

\* the warnings of the period an update closed: the larger of the two counts
ClosedCount(h, u) ==
    IF ~u.reset THEN 0
    ELSE LET ups == h.flagUps + (IF u.warned THEN 1 ELSE 0)
             passes == h.warnPasses + (IF u.passes > 0 THEN 1 ELSE 0)
         IN  IF ups > passes THEN ups ELSE passes

----------------------------------------------------------------------------
(* saveStats: the outcomes of ioutil.WriteFile *)

WriteOutcomes == {"ok", "fail", "torn"}

CanWrite(w) == w = "ok" \/ wfails > 0

\* the outcomes the next write can have
WritesPossible == {w \in WriteOutcomes : CanWrite(w)}

\* the file after saveStats of S
WrittenNever(S, w) == disk

Written(S, w) ==
    IF w = "ok" THEN File(S) ELSE IF w = "torn" THEN Corrupt ELSE disk

WriteCount(w) == IF w = "ok" THEN wfails ELSE wfails - 1

----------------------------------------------------------------------------
(* The process *)

Down ==
    /\ Stats' = ZeroStats
    /\ bg' = "none"
    /\ fg' = "down"
    /\ hist' = NoHist
    /\ mu' = "free"

Up(S) ==
    /\ Stats' = S
    /\ bg' = "idle"
    /\ fg' = "wait"
    /\ mu' = "free"

Stopped == fg \in {"down", "done"}

\* NewApp calls loadOrInitStats: the process starts, or has taken the lock
Loading == Stopped \/ fg = "load"

\* NewApp, loadOrInitStats: the file does not exist, the counters cannot be read
FirstRunReadFails ==
    /\ Loading /\ disk.kind = "nofile"
    /\ ev' = [NoEv EXCEPT !.op = "init", !.err = TRUE, !.read = "fail"]
    /\ Down
    /\ UNCHANGED <<cfg, disk, wfails>>

\* NewApp, loadOrInitStats: the file does not exist
FirstRun ==
    /\ Loading /\ disk.kind = "nofile"
    /\ \E t \in TimePoints, b \in getCurrentTrafficBytes(cfg), w \in WritesPossible :
        \E S \in {InitStats(t, cfg, b[1], b[2])} :
        /\ disk' = Written(S, w)
        /\ wfails' = WriteCount(w)
        /\ ev' = [NoEv EXCEPT !.op = "init", !.err = (w # "ok"), !.read = "ok",
                              !.write = w, !.rawIn = b[1], !.rawOut = b[2]]
        /\ IF w = "ok"
           THEN /\ Up(S)
                /\ hist' = [NoHist EXCEPT !.mono = TRUE, !.initIn = b[1],
                                          !.initOut = b[2]]
           ELSE Down
    /\ UNCHANGED cfg

\* NewApp, loadOrInitStats: the file does not parse
LoadCorrupt ==
    /\ Loading /\ disk.kind = "corrupt"
    /\ ev' = [NoEv EXCEPT !.op = "load", !.err = TRUE]
    /\ Down
    /\ UNCHANGED <<cfg, disk, wfails>>

\* NewApp, loadOrInitStats: the file is read, no reset is due
Load ==
    /\ Loading /\ disk.kind = "file"
    /\ \E t \in NotBefore(disk.stats.LastResetTime) : ~ResetDue(t, disk.stats)
    /\ Up(disk.stats)
    /\ hist' = NoHist
    /\ ev' = [NoEv EXCEPT !.op = "load"]
    /\ UNCHANGED <<cfg, disk, wfails>>

\* NewApp, loadOrInitStats: the file is read, a reset is due, the counters
\* cannot be read
LoadResetReadFails ==
    /\ Loading /\ disk.kind = "file"
    /\ \E t \in NotBefore(disk.stats.LastResetTime) : ResetDue(t, disk.stats)
    /\ ev' = [NoEv EXCEPT !.op = "load", !.err = TRUE, !.read = "fail",
                          !.report = sendMonthlyReport(disk.stats, cfg),
                          !.totIn = disk.stats.BytesIn,
                          !.totOut = disk.stats.BytesOut]
    /\ Down
    /\ UNCHANGED <<cfg, disk, wfails>>

\* NewApp, loadOrInitStats: the file is read, a reset is due
LoadReset ==
    /\ Loading /\ disk.kind = "file"
    /\ \E t \in NotBefore(disk.stats.LastResetTime),
          b \in getCurrentTrafficBytes(cfg), w \in WritesPossible :
        \E S \in {LoadResetStats(disk.stats, t, cfg, b[1], b[2])} :
        /\ ResetDue(t, disk.stats)
        /\ disk' = Written(S, w)
        /\ wfails' = WriteCount(w)
        /\ ev' = [NoEv EXCEPT !.op = "load", !.err = (w # "ok"), !.read = "ok",
                              !.reset = TRUE,
                              !.report = sendMonthlyReport(disk.stats, cfg),
                              !.totIn = disk.stats.BytesIn,
                              !.totOut = disk.stats.BytesOut,
                              !.write = w, !.at = t,
                              !.rawIn = b[1], !.rawOut = b[2]]
        /\ IF w = "ok" THEN Up(S) /\ hist' = NoHist ELSE Down
    /\ UNCHANGED cfg

\* updateTrafficStats up to the read of the counters, which fails
UpdateReadFailsAfterRebaseline(op) ==
    /\ ev' = [NoEv EXCEPT !.op = op, !.err = TRUE, !.read = "fail"]
    /\ Stats' = [Stats EXCEPT !.LastBytesIn = 0, !.LastBytesOut = 0]
    /\ UNCHANGED <<cfg, disk, wfails, hist>>

UpdateReadFails(op) ==
    /\ ev' = [NoEv EXCEPT !.op = op, !.err = TRUE, !.read = "fail"]
    /\ UNCHANGED <<cfg, Stats, disk, wfails, hist>>

\* updateTrafficStats from the read of the counters to saveStats
UpdateBody(op) ==
    \E t \in NotBefore(Stats.LastResetTime), b \in getCurrentTrafficBytes(cfg),
       w \in WritesPossible :
        \E u \in {Update(Stats, cfg, b[1], b[2], t)} :
        /\ Stats' = u.Stats
        /\ disk' = Written(u.Stats, w)
        /\ wfails' = WriteCount(w)
        /\ ev' = [op |-> op, err |-> (w # "ok"), read |-> "ok",
                  warned |-> u.warned, passes |-> u.passes,
                  shutdown |-> u.shutdown, reset |-> u.reset,
                  report |-> u.report, totIn |-> u.totIn, totOut |-> u.totOut,
                  write |-> w, closed |-> ClosedCount(hist, u),
                  at |-> IF u.reset THEN t ELSE ZeroTime,
                  rawIn |-> b[1], rawOut |-> b[2]]
        /\ hist' = HistAfter(hist, Stats, u, cfg, b[1], b[2])
        /\ UNCHANGED cfg

\* monitorTraffic: the ticker case, updateTrafficStats fails to read the counters
TickReadFails ==
    /\ bg = "idle"
    /\ UpdateReadFails("tick")
    /\ UNCHANGED <<bg, fg, mu>>

\* monitorTraffic: the ticker case, updateTrafficStats runs to its end
Tick ==
    /\ bg = "idle"
    /\ UpdateBody("tick")
    /\ UNCHANGED <<bg, fg, mu>>

\* Start: a signal arrives, stopChan is closed, Start waits for the loop
Signal ==
    /\ fg = "wait"
    /\ fg' = "join"
    /\ UNCHANGED <<cfg, Stats, disk, bg, wfails, ev, hist, mu>>

\* monitorTraffic: the stopChan case is chosen
BgExitNever ==
    /\ bg = "idle" /\ fg = "join"
    /\ UNCHANGED vars

BgExit ==
    /\ bg = "idle" /\ fg = "join"
    /\ bg' = "exited"
    /\ UNCHANGED <<cfg, Stats, disk, fg, wfails, ev, hist, mu>>

\* Start: wg.Wait has returned, the final updateTrafficStats fails to read
FinalReadFails ==
    /\ fg = "join" /\ bg = "exited"
    /\ UpdateReadFails("final")
    /\ fg' = "done"
    /\ UNCHANGED <<bg, mu>>

\* Start: wg.Wait has returned, the final updateTrafficStats, Start returns
Final ==
    /\ fg = "join" /\ bg = "exited"
    /\ UpdateBody("final")
    /\ fg' = "done"
    /\ UNCHANGED <<bg, mu>>

\* the process is killed or the host powers off (the goroutine of
\* sendWarningMessage among the causes)
Kill ==
    /\ ~Stopped
    /\ Down
    /\ ev' = NoEv
    /\ UNCHANGED <<cfg, disk, wfails>>

\* the file is damaged while the process is down: truncated by the host, a
\* full disk, an edit by hand
FileDamaged ==
    /\ Stopped /\ disk.kind = "file"
    /\ disk' = Corrupt
    /\ ev' = [NoEv EXCEPT !.op = "damage"]
    /\ UNCHANGED <<cfg, Stats, bg, fg, wfails, hist, mu>>

----------------------------------------------------------------------------
(* Specifications *)

ThresholdsGB == 0 .. MaxThresholdGB

InitWith(configs, n) ==
    /\ cfg \in configs
    /\ Stats = ZeroStats
    /\ disk = NoFile
    /\ bg = "none"
    /\ fg = "down"
    /\ wfails = n
    /\ ev = NoEv
    /\ hist = NoHist
    /\ mu = "free"

\* one configuration: the sum of both directions against 1 GB, reset on the
\* 1st, a bot, no power-off
Configs == {Config("both", 1, 1, Duplex, TRUE, FALSE)}

\* every traffic mode, against every threshold
ConfigsModes ==
    {Config(mode, gb, 1, ReceiveOnly, TRUE, FALSE) :
        mode \in Modes \cup {OtherMode}, gb \in ThresholdsGB}

\* with and without a bot, with and without the power-off
ConfigsShutdown ==
    {Config("in", 1, 1, ReceiveOnly, bot, shutdown) :
        bot \in BOOLEAN, shutdown \in BOOLEAN}

\* reset days below, in and above the range 1..28
ResetDays == {0, 15, 31}

ConfigsSched ==
    {Config("in", 1, day, ReceiveOnly, TRUE, FALSE) : day \in ResetDays}

Init == InitWith(Configs, 0)

Next ==
    \/ FirstRunReadFails
    \/ FirstRun
    \/ LoadCorrupt
    \/ Load
    \/ LoadResetReadFails
    \/ LoadReset
    \/ TickReadFails
    \/ Tick
    \/ Signal
    \/ BgExit
    \/ FinalReadFails
    \/ Final
    \/ Kill
    \/ FileDamaged

Spec == Init /\ [][Next]_vars

\* every traffic mode and threshold
InitModes == InitWith(ConfigsModes, 0)
SpecModes == InitModes /\ [][Next]_vars

\* the warning with and without a bot and the power-off
InitShutdown == InitWith(ConfigsShutdown, 0)
SpecShutdown == InitShutdown /\ [][Next]_vars

\* every reset day, with writes of the file that fail
InitSched == InitWith(ConfigsSched, MaxWriteFails)
SpecSched == InitSched /\ [][Next]_vars

----------------------------------------------------------------------------
(* getNextResetTime on its own: every instant of two years, every reset    *)
(* day from below to above the range 1..28.                                *)

Years == {2024, 2025}

DaysIn(y, m) ==
    IF m = 2 THEN (IF y % 4 = 0 THEN 29 ELSE 28)
    ELSE IF m \in {4, 6, 9, 11} THEN 30 ELSE 31

AllTimes ==
    UNION {{Time(y, m, d, h) : d \in 1 .. DaysIn(y, m), h \in {0, 1}} :
              y \in Years, m \in 1 .. 12}

AllResetDays == (0 - 2) .. 33

ConfigsNextReset ==
    {Config("both", 1, day, Duplex, TRUE, FALSE) : day \in AllResetDays}

InitNextReset == InitWith(ConfigsNextReset, 0)

\* the schedule getNextResetTime gives a period that starts at t
Schedule ==
    \E t \in AllTimes :
        /\ Stats = ZeroStats
        /\ Stats' = [ZeroStats EXCEPT
                        !.CurrentMonth = FormatMonth(t),
                        !.LastResetTime = t,
                        !.NextResetTime = getNextResetTime(t, cfg.MonthlyResetDay)]
        /\ UNCHANGED <<cfg, disk, bg, fg, wfails, ev, hist, mu>>

SpecNextReset == InitNextReset /\ [][Schedule]_vars

----------------------------------------------------------------------------
(* The goroutines step by step. Next takes each call of loadOrInitStats   *)
(* and updateTrafficStats as one step, at the point where it holds the     *)
(* lock; NextLoop shows the steps around it: the choice of the select      *)
(* statement, the call of app.mu.Lock, the body, the deferred Unlock.      *)

ConfigsLoop == {Config("in", 1, 1, ReceiveOnly, TRUE, FALSE)}

InitLoop == InitWith(ConfigsLoop, 0)

\* main: the process starts, NewApp calls loadOrInitStats, which takes the lock
BootLock ==
    /\ Stopped /\ mu = "free"
    /\ fg' = "load"
    /\ mu' = "load"
    /\ Stats' = ZeroStats
    /\ bg' = "none"
    /\ ev' = NoEv
    /\ hist' = NoHist
    /\ UNCHANGED <<cfg, disk, wfails>>

\* loadOrInitStats under the lock, released by the deferred Unlock
BootFirstRunReadFails == fg = "load" /\ FirstRunReadFails
BootFirstRun == fg = "load" /\ FirstRun
BootLoadCorrupt == fg = "load" /\ LoadCorrupt
BootLoad == fg = "load" /\ Load
BootLoadResetReadFails == fg = "load" /\ LoadResetReadFails
BootLoadReset == fg = "load" /\ LoadReset

\* monitorTraffic: the select statement chooses the ticker case and calls
\* updateTrafficStats
TickStart ==
    /\ bg = "idle"
    /\ bg' = "lock"
    /\ UNCHANGED <<cfg, Stats, disk, fg, wfails, ev, hist, mu>>

\* updateTrafficStats: app.mu.Lock() in the loop
TickNoLock ==
    /\ bg = "lock"
    /\ bg' = "tick"
    /\ UNCHANGED <<cfg, Stats, disk, fg, wfails, ev, hist, mu>>

TickLock ==
    /\ bg = "lock" /\ mu = "free"
    /\ mu' = "bg"
    /\ bg' = "tick"
    /\ UNCHANGED <<cfg, Stats, disk, fg, wfails, ev, hist>>

\* updateTrafficStats in the loop: the read fails, the lock is released
TickDoneReadFails ==
    /\ bg = "tick"
    /\ UpdateReadFails("tick")
    /\ bg' = "idle"
    /\ mu' = "free"
    /\ UNCHANGED fg

\* updateTrafficStats in the loop runs to its end, the lock is released
TickDone ==
    /\ bg = "tick"
    /\ UpdateBody("tick")
    /\ bg' = "idle"
    /\ mu' = "free"
    /\ UNCHANGED fg

\* Start: wg.Wait has returned, updateTrafficStats takes the lock
FinalLock ==
    /\ fg = "join" /\ bg = "exited" /\ mu = "free"
    /\ mu' = "fg"
    /\ fg' = "final"
    /\ UNCHANGED <<cfg, Stats, disk, bg, wfails, ev, hist>>

\* Start: the final updateTrafficStats fails to read, Start returns
FinalDoneReadFails ==
    /\ fg = "final"
    /\ UpdateReadFails("final")
    /\ fg' = "done"
    /\ mu' = "free"
    /\ UNCHANGED bg

\* Start: the final updateTrafficStats runs to its end, Start returns
FinalDone ==
    /\ fg = "final"
    /\ UpdateBody("final")
    /\ fg' = "done"
    /\ mu' = "free"
    /\ UNCHANGED bg

\* the steps of a process that is not killed
NextRun ==
    \/ BootLock
    \/ BootFirstRunReadFails
    \/ BootFirstRun
    \/ BootLoadCorrupt
    \/ BootLoad
    \/ BootLoadResetReadFails
    \/ BootLoadReset
    \/ TickStart
    \/ TickLock
    \/ TickDoneReadFails
    \/ TickDone
    \/ Signal
    \/ BgExit
    \/ FinalLock
    \/ FinalDoneReadFails
    \/ FinalDone
    \/ FileDamaged

NextLoop == NextRun \/ Kill

SpecLoop == InitLoop /\ [][NextLoop]_vars

\* the scheduler runs every goroutine that can step; the select statement
\* chooses at random among the cases that are ready, so the stopChan case,
\* ready again at every iteration, is chosen in the end
Fairness ==
    /\ WF_vars(TickLock)
    /\ WF_vars(TickDone \/ TickDoneReadFails)
    /\ SF_vars(BgExit)
    /\ WF_vars(FinalLock)
    /\ WF_vars(FinalDone \/ FinalDoneReadFails)

SpecStop == InitLoop /\ [][NextRun]_vars /\ Fairness

----------------------------------------------------------------------------
(* Properties *)

\* a step that is a call of updateTrafficStats whose read succeeded
UpdateStep == Tick \/ Final

\* the process holds statistics: it runs, or Start has returned
Holding == fg # "down"

\* the day of the month a reset day stands for
ClampDay(day) == IF day < 1 THEN 1 ELSE IF day > 28 THEN 28 ELSE day

MonthIndex(t) == t.y * 12 + t.m

\* the schedule of S: midnight of the reset day in the calendar month after
\* the month the period started in, which is after the start of the period
OnSchedule(S, c) ==
    /\ S.NextResetTime.h = 0
    /\ S.NextResetTime.d = ClampDay(c.MonthlyResetDay)
    /\ S.NextResetTime.m \in 1 .. 12
    /\ MonthIndex(S.NextResetTime) = MonthIndex(S.LastResetTime) + 1
    /\ After(S.NextResetTime, S.LastResetTime)

\* the effective traffic as the documentation states it
Effective(mode, accIn, accOut) ==
    CASE mode = "in" -> accIn
      [] mode = "out" -> accOut
      [] mode = "max" -> IF accIn > accOut THEN accIn ELSE accOut
      [] mode = "both" -> accIn + accOut

\* C1: in an update whose raw counter is below the stored baseline, the delta
\* added to the accumulator is the raw value itself, for in and for out.
C1_DiscontinuityDelta ==
    [][UpdateStep =>
        /\ Stats'.LastBytesIn < Stats.LastBytesIn =>
              USub(ev'.totIn, Stats.BytesIn) = Stats'.LastBytesIn
        /\ Stats'.LastBytesOut < Stats.LastBytesOut =>
              USub(ev'.totOut, Stats.BytesOut) = Stats'.LastBytesOut]_vars

\* C2: from a first run on, while the samples do not decrease and no reset
\* occurs, each accumulator is the sum of the deltas of the ticks and is the
\* latest raw value minus the first one; a tick whose read fails changes nothing.
C2_AccumulatedIsFinalMinusInitial ==
    hist.mono =>
        /\ Stats.BytesIn = hist.sumIn
        /\ Stats.BytesIn = Stats.LastBytesIn - hist.initIn
        /\ Stats.BytesOut = hist.sumOut
        /\ Stats.BytesOut = Stats.LastBytesOut - hist.initOut

C2_Witness ==
    /\ hist.mono
    /\ ev.op = "tick" /\ ev.read = "ok"
    /\ hist.initIn > 0 /\ hist.initOut > 0
    /\ Stats.BytesIn > 0 /\ Stats.BytesOut > 0

\* C3: between two resets the warning flag goes from false to true at most
\* once and the warning pass over the chats is made at most once, in the
\* running period and in the period a reset closed.
C3_WarnOncePerPeriod ==
    /\ hist.flagUps <= 1
    /\ hist.warnPasses <= 1
    /\ ev.closed <= 1

\* a tick that finds the traffic at the threshold after the warning of the
\* period was sent, and sends nothing
C3_Witness ==
    /\ hist.flagUps = 1 /\ hist.warnPasses = 1
    /\ ev.op = "tick" /\ ev.read = "ok"
    /\ ~ev.warned /\ ~ev.reset
    /\ totalTraffic(Stats, cfg) >= warningThresholdBytes(cfg)

\* C4: the traffic compared with the threshold is accumulatedIn, accumulatedOut,
\* their maximum or their arithmetic sum, by mode, and the warning fires in an
\* update exactly when the flag is false and that value is at least the
\* threshold in bytes.
C4_EffectiveTraffic ==
    [][(UpdateStep /\ cfg.TrafficMode \in Modes) =>
        (ev'.warned <=>
            /\ ~Stats.WarningsSentThisMonth
            /\ Effective(cfg.TrafficMode, ev'.totIn, ev'.totOut)
                  >= warningThresholdBytes(cfg))]_vars

\* C5: with a traffic mode that is none of in, out, max, both the effective
\* traffic is 0 and no update warns or sets the warning flag, whatever the
\* threshold.
C5_OtherModeNeverWarns ==
    cfg.TrafficMode \notin Modes =>
        /\ totalTraffic(Stats, cfg) = 0
        /\ ~ev.warned
        /\ ~Stats.WarningsSentThisMonth

\* C6: an update that warns schedules the power-off exactly when
\* shutdown_on_warning is set, with or without a bot, and nothing else
\* schedules it.
C6_ShutdownIffConfigured ==
    /\ ev.warned => (ev.shutdown <=> cfg.ShutdownOnWarning)
    /\ ev.shutdown => ev.warned

\* C7: getNextResetTime(now, resetDay) is midnight of day clamp(resetDay, 1, 28)
\* of the calendar month after the month of now, January of the next year after
\* December, and so is after now.
C7_NextResetTime ==
    Stats.LastResetTime # ZeroTime =>
        /\ OnSchedule(Stats, cfg)
        /\ Stats.NextResetTime.y =
              (IF Stats.LastResetTime.m = 12 THEN Stats.LastResetTime.y + 1
               ELSE Stats.LastResetTime.y)

\* the last instant of a December, with a reset day above 28
C7_Witness ==
    /\ Stats.LastResetTime = Time(2024, 12, 31, 1)
    /\ cfg.MonthlyResetDay = 31
    /\ Stats.NextResetTime = Time(2025, 1, 28, 0)

\* C8: after a reset, in a tick or at the load, the accumulators are 0, the
\* warning flag is false, the period starts at the instant of the reset, the
\* next reset is after it, and the file written in that step holds this state.
C8_ResetState ==
    (ev.reset /\ Holding) =>
        /\ Stats.BytesIn = 0
        /\ Stats.BytesOut = 0
        /\ ~Stats.WarningsSentThisMonth
        /\ Stats.LastResetTime = ev.at
        /\ After(Stats.NextResetTime, ev.at)
        /\ ev.write = "ok" => disk = File(Stats)

\* a tick that accumulates, warns and resets
C8_Witness ==
    /\ ev.op = "tick" /\ ev.reset /\ ev.warned
    /\ ev.totIn > 0 /\ ev.totOut > 0
    /\ ev.write = "ok"

\* C9: in every state reached from a first run by ticks, resets and restarts,
\* in memory and in the file, the next reset is after the start of the period
\* and is the midnight of the reset day in the month after the month of the
\* start of the period.
C9_ScheduleFollowsPeriodStart ==
    /\ Holding => OnSchedule(Stats, cfg)
    /\ disk.kind = "file" => OnSchedule(disk.stats, cfg)

\* a restart in a period that a reset started, with a reset day above 28
C9_Witness ==
    /\ ev.op = "load" /\ ~ev.reset /\ ~ev.err
    /\ bg = "idle"
    /\ cfg.MonthlyResetDay = 31
    /\ Stats.LastResetTime = Time(2025, 2, 1, 1)
    /\ Stats.NextResetTime = Time(2025, 3, 28, 0)

\* C10: within a period no update lowers accumulatedIn or accumulatedOut,
\* whatever the raw samples are.
C10_AccumulatorsNeverDecrease ==
    [][UpdateStep =>
        /\ ev'.totIn >= Stats.BytesIn
        /\ ev'.totOut >= Stats.BytesOut]_vars

\* C11: a tick whose read of the counters fails changes no field of the
\* statistics in memory, writes nothing to the file, sends no warning and no
\* report, and leaves the loop running.
C11_ReadFailureChangesNothing ==
    [][TickReadFails =>
        /\ Stats' = Stats
        /\ disk' = disk
        /\ wfails' = wfails
        /\ ev'.write = "none"
        /\ ~ev'.warned /\ ev'.passes = 0 /\ ~ev'.shutdown
        /\ ~ev'.report.sent
        /\ bg' = "idle"]_vars

\* a failed read in a period that has traffic, a warning sent and a reset due
C11_Witness ==
    /\ ev.op = "tick" /\ ev.read = "fail"
    /\ bg = "idle"
    /\ Stats.BytesIn > 0 /\ Stats.LastBytesIn > 0
    /\ Stats.WarningsSentThisMonth
    /\ Stats.NextResetTime = Time(2025, 1, 1, 0)

\* C12: once stopChan is closed the loop starts no new tick; the final update
\* starts only after the loop has exited; after the final update neither a
\* tick nor another final update starts.
C12_StopOrder ==
    [][/\ fg = "join" => ~(bg = "idle" /\ bg' = "lock")
       /\ (fg # "final" /\ fg' = "final") => bg = "exited"
       /\ fg = "done" => (bg' # "lock" /\ bg' # "tick" /\ fg' # "final")]_vars

\* C13: once stopChan is closed the process reaches the state where the loop
\* has exited and the final update is done, if it is not killed and the
\* goroutines are scheduled fairly.
C13_StopTerminates == (fg = "join") ~> (fg = "done" /\ bg = "exited")

\* the signal arrives while a tick holds the lock
C13_Witness == fg = "join" /\ bg = "tick" /\ mu = "bg"

\* who is inside loadOrInitStats or updateTrafficStats, past Lock
Inside == {g \in {"bg", "fg", "load"} :
              \/ g = "bg" /\ bg = "tick"
              \/ g = "fg" /\ fg = "final"
              \/ g = "load" /\ fg = "load"}

\* C14: at most one of the loop, the final update and the load is inside its
\* locked section, the one inside holds the lock, and every step that writes
\* the file is taken with the lock held.
C14_MutualExclusion ==
    /\ [](/\ Cardinality(Inside) <= 1
          /\ Inside = IF mu = "free" THEN {} ELSE {mu})
    /\ [][(ev'.write # "none" /\ (disk' # disk \/ ev' # ev)) => mu # "free"]_vars

\* a tick holds the lock while Start waits for the loop
C14_Witness ==
    /\ bg = "tick" /\ mu = "bg" /\ fg = "join"
    /\ disk.kind = "file" /\ disk.stats.BytesIn > 0

\* C15: after a reset in an update the baseline is the pair of counters that
\* update read; after a reset at the load the baseline, in memory and in the
\* file, is the pair read at the load, not the one the file held.
C15_BaselineAfterReset ==
    (ev.reset /\ Holding) =>
        /\ Stats.LastBytesIn = ev.rawIn
        /\ Stats.LastBytesOut = ev.rawOut
        /\ ev.write = "ok" =>
              /\ disk.stats.LastBytesIn = ev.rawIn
              /\ disk.stats.LastBytesOut = ev.rawOut

\* a reset at the load, with traffic in the period it closes
C15_Witness ==
    /\ ev.op = "load" /\ ev.reset /\ ev.write = "ok"
    /\ fg = "wait"
    /\ ev.totIn > 0
    /\ ev.rawIn = 1 /\ ev.rawOut = 2

\* the step is a reset, or a load that sent the report
ReportStep == ev' # ev /\ (ev'.reset \/ ev'.report.sent)

\* the statistics a reset step started from: the file at a load, the memory
\* in an update
Closing == IF ev'.op = "load" THEN disk.stats ELSE Stats

\* C16: the report of a reset carries the label, the schedule and the totals
\* of the period it closes, in an update the totals with the delta of that
\* update, and the accumulators are 0 only after it.
C16_ReportBeforeReset ==
    [][ReportStep =>
        /\ ev'.report.sent
        /\ ev'.report.month = Closing.CurrentMonth
        /\ ev'.report.next = Closing.NextResetTime
        /\ ev'.op = "load" =>
              /\ ev'.report.in = Closing.BytesIn
              /\ ev'.report.out = Closing.BytesOut
        /\ ev'.op # "load" =>
              /\ ev'.report.in =
                    UAdd(Stats.BytesIn, USub(ev'.rawIn, Stats.LastBytesIn))
              /\ ev'.report.out =
                    UAdd(Stats.BytesOut, USub(ev'.rawOut, Stats.LastBytesOut))
        /\ ev'.report.total = UAdd(ev'.report.in, ev'.report.out)
        /\ (ev'.reset /\ fg' # "down") =>
              /\ Stats'.BytesIn = 0 /\ Stats'.BytesOut = 0
              /\ ~Stats'.WarningsSentThisMonth
              /\ After(Stats'.NextResetTime, Closing.NextResetTime)]_vars

\* a tick that closes a period whose totals include the delta of the tick
C16_Witness ==
    /\ ev.op = "tick" /\ ev.reset /\ ev.report.sent
    /\ ev.report.in = 2 /\ ev.report.out = 1
    /\ ev.report.month = <<2024, 12>>
    /\ Stats.CurrentMonth = <<2025, 2>>
    /\ Stats.BytesIn = 0

\* C17: a monthly report is sent only in a step that applies a reset to the
\* statistics, so once for each change of period.
C17_ReportOnlyWithReset == ev.report.sent => (ev.reset /\ Holding)

\* the step is a call of updateTrafficStats that returned an error
UpdateFailed == ev' # ev /\ ev'.op \in {"tick", "final"} /\ ev'.err

\* C18 as stated: an update that returns an error, a failed write of the file
\* included, leaves the statistics in memory as they were.
C18_ErrorLeavesStateUnchanged == [][UpdateFailed => Stats' = Stats]_vars

\* C18 amended: an update that fails to read the counters leaves the
\* statistics in memory and the file as they were; an update that fails to
\* write the file holds in memory the whole update: the new baseline, the
\* accumulators with the delta, or 0 after a reset.
C18_ErrorKeepsOrCompletes ==
    [][UpdateFailed =>
        IF ev'.read = "fail"
        THEN Stats' = Stats /\ disk' = disk
        ELSE /\ ev'.write \in {"fail", "torn"}
             /\ Stats'.LastBytesIn = ev'.rawIn
             /\ Stats'.LastBytesOut = ev'.rawOut
             /\ ev'.totIn = UAdd(Stats.BytesIn, USub(ev'.rawIn, Stats.LastBytesIn))
             /\ ev'.totOut = UAdd(Stats.BytesOut, USub(ev'.rawOut, Stats.LastBytesOut))
             /\ Stats'.BytesIn = (IF ev'.reset THEN 0 ELSE ev'.totIn)
             /\ Stats'.BytesOut = (IF ev'.reset THEN 0 ELSE ev'.totOut)
             /\ disk' = (IF ev'.write = "torn" THEN Corrupt ELSE disk)]_vars

\* a tick that accumulated and could not write, the file an update behind
C18_Witness ==
    /\ ev.op = "tick" /\ ev.err /\ ev.write = "fail"
    /\ disk.kind = "file"
    /\ Stats.BytesIn = 1 /\ disk.stats.BytesIn = 0
    /\ Stats.LastBytesIn = 2 /\ disk.stats.LastBytesIn = 1

\* accumulator minus baseline: what a later sample is added to
Offset(S) == <<USub(S.BytesIn, S.LastBytesIn), USub(S.BytesOut, S.LastBytesOut)>>

TrueDelta(current, last) == IF current < last THEN current ELSE current - last

\* C20: an update warns only if the traffic of the period, with the bytes
\* transferred since the baseline, reaches the threshold, also when the
\* counters are below the baseline.
C20_NoFalseWarning ==
    [][(ev' # ev /\ ev'.op \in {"tick", "final"} /\ ev'.warned) =>
        Effective(cfg.TrafficMode,
                  Stats.BytesIn + TrueDelta(ev'.rawIn, Stats.LastBytesIn),
                  Stats.BytesOut + TrueDelta(ev'.rawOut, Stats.LastBytesOut))
            >= warningThresholdBytes(cfg)]_vars

====
